---- MODULE Spec2Model ----
(***************************************************************************)
(* Grid-aware data center simulation: the stepping orchestrator            *)
(* (DataCenterOptimizer) and its four components (GridSignalMonitor,       *)
(* ITLoadModel, CoolingModel, SimpleController).                           *)
(*                                                                         *)
(* Real numbers are fixed-point integers:                                  *)
(*   utilization, renewable fraction, stress, ratios, PUE : x 1000         *)
(*   temperatures                                         : x 100 (C)      *)
(*   power                                                : x 10  (kW)     *)
(*   heat                                                 : x 1000 (BTU/hr)*)
(*   energy                                               : kW x 10 x s    *)
(*   price                                                : x 1000 ($/kWh) *)
(*   carbon intensity                                     : x 10 (g/kWh)   *)
(* Timestamps are seconds since midnight of day 0.                         *)
(***************************************************************************)
EXTENDS Integers, Sequences, FiniteSets

\* ---------------------------------------------------------------- bounds
MaxSteps == 3
\* the number of times in a row a call without arguments is repeated
MaxRepeats == 2

\* ------------------------------------------------- configuration defaults
BaseCapacityKw == 500
FlexCapacityKw == 500
NumServers == 1000
ServerIdlePowerW == 100
ServerMaxPowerW == 300
InitBaseWorkload == 700
InitFlexWorkload == 300

DefaultSupplyTemp == 1800
DefaultOutdoorTemp == 2000
ChillerCopX10 == 35
DefaultFreeCoolingThreshold == 1500
ThermalMass == 50000
DefaultTargetTemp == 2200
FanPumpOverhead == 100
InitPue == 1200

BasePrice == 120
PriceMultiplierPeakX10 == 20
PriceMultiplierShoulderX10 == 13
BaseCarbon == 5000
CleanCarbon == 500

DefaultAdjustmentRate == 200
RenewableThresholdHigh == 600
RenewableThresholdLow == 300
StressThresholdHigh == 700
StressThresholdIncrease == 500
BaseTarget == 700
FlexFloor == 100
FlexCap == 1000

DefaultTimestep == 300
BtuPerKwX100 == 341214

MODE_FREE == "free_cooling"
MODE_HYBRID == "hybrid"
MODE_MECHANICAL == "mechanical"

\* ------------------------------------------------------- input domains
\* timestep_seconds values an orchestrator is constructed with
Timesteps == {-300, 0, 300, 3600, 7200}
\* start_time values (seconds since midnight): hours 0, 6, 11, 19
StartTimes == {0, 21600, 39600, 68400}
\* duration_hours * 3600 passed to run()
Durations == {0, 200, 300, 600, 3600, 14400}
\* values drawn for np.random.uniform(-0.1, 0.1)
Perturbations == {-100, 0, 100}
\* workload_adjustment_rate values for the controller
AdjustmentRates == {0, 100, 200, 700}
\* renewable fractions and stress levels handed to the controller
RenewableSignals == {0, 300, 450, 600, 1000}
StressSignals == {0, 499, 500, 700, 1000}
\* outdoor temperatures
OutdoorTemps == {500, 1000, 1025, 1026, 1450, 1451, 1499, 1500, 1535, 1536, 1800,
                 2129, 2130, 2131, 2200, 2300, 2500, 3000}
\* heat loads handed to cooling.update
HeatLoads == {0, 614185200, 682428000}
\* stress_threshold_high of the controller configuration: below and above the
\* 0.5 of the increase condition
StressThresholds == {400, 700}
\* arguments of set_workload, in range and out of range
Utilizations == {-200, 0, 300, 700, 1000, 1500}
\* arguments of compute_pue, in 0.1 kW
ItPowers == {-1000, 0, 1, 1000, 1800, 3000}
CoolingPowers == {0, 1, 540, 5000}
\* free_cooling_threshold_c / target_temp_c values for the cooling model
FreeCoolingThresholds == {1000, 1500, 2500}
TargetTemps == {1500, 2200}

\* ---------------------------------------------------------- arithmetic
Min(a, b) == IF a <= b THEN a ELSE b
Max(a, b) == IF a >= b THEN a ELSE b
Abs(a) == IF a >= 0 THEN a ELSE -a

\* np.clip(x, lo, hi)
Clip(x, lo, hi) == Min(Max(x, lo), hi)

\* floor(a * b / c) for c > 0, b >= 0, without forming a * b
MulDiv(a, b, c) == (a \div c) * b + ((a % c) * b) \div c

\* Python's a // b (floor division, either sign of b, b # 0)
FloorDiv(a, b) == IF b > 0 THEN a \div b ELSE (-a) \div (-b)

\* Python's int(a / b): true division truncated toward zero (b # 0)
TruncDiv(a, b) ==
  IF (a >= 0) = (b > 0) THEN Abs(a) \div Abs(b) ELSE -(Abs(a) \div Abs(b))

RECURSIVE SumSeq(_)
SumSeq(s) == IF s = << >> THEN 0 ELSE Head(s) + SumSeq(Tail(s))

RECURSIVE MinSeq(_)
MinSeq(s) == IF Len(s) = 1 THEN s[1] ELSE Min(Head(s), MinSeq(Tail(s)))

RECURSIVE MaxSeq(_)
MaxSeq(s) == IF Len(s) = 1 THEN s[1] ELSE Max(Head(s), MaxSeq(Tail(s)))

\* 1000 * sin(k * pi / 12), k an integer
SinTable == << 0, 259, 500, 707, 866, 966, 1000, 966, 866, 707, 500, 259,
               0, -259, -500, -707, -866, -966, -1000, -966, -866, -707, -500, -259 >>
Sin12(k) == SinTable[(k % 24) + 1]

\* datetime.hour of a timestamp
HourOf(t) == (t \div 3600) % 24

\* ====================================================== GridSignalMonitor
\* renewable_profile[h]
RenewableProfile(h) ==
  LET solar == Max(0, Sin12(h - 6))
      wind_base == 400
      wind_variation == (200 * Sin12(h + 12)) \div 1000
      wind == wind_base + wind_variation
      renewable == (600 * solar + 400 * wind) \div 1000
  IN  Clip(renewable, 0, 1000)

\* price_profile[h]
PriceProfile(h) ==
  IF 16 <= h /\ h < 21 THEN (BasePrice * PriceMultiplierPeakX10) \div 10
  ELSE IF (12 <= h /\ h < 16) \/ (21 <= h /\ h < 23)
       THEN (BasePrice * PriceMultiplierShoulderX10) \div 10
       ELSE BasePrice

\* carbon_profile[h]
CarbonProfile(h) ==
  BaseCarbon - ((BaseCarbon - CleanCarbon) * RenewableProfile(h)) \div 1000

\* compute_stress_level(hour); u is the value np.random.uniform returns
ComputeStressLevel(hour, u) ==
  LET demand_stress == IF 16 <= hour /\ hour < 21 THEN 700
                       ELSE IF (12 <= hour /\ hour < 16) \/ (21 <= hour /\ hour < 23)
                            THEN 400 ELSE 200
      renewable_factor == 1000 - RenewableProfile(hour)
      stress == (demand_stress * (500 + (500 * renewable_factor) \div 1000)) \div 1000
  IN  Clip(stress + u, 0, 1000)

\* grid.current_state before the first update: the empty dict
EmptyGridState ==
  [empty |-> TRUE, timestamp |-> 0, hour |-> 0, renewable_pct |-> 0,
   grid_stress |-> 0, price_per_kwh |-> 0, carbon_intensity_gco2_kwh |-> 0,
   has_outdoor |-> FALSE, outdoor_temp_c |-> 0]

\* GetCurrentState adding the random perturbation to the renewable fraction too
GetCurrentStateNoisyRenewable(t, u) ==
  LET hour == HourOf(t)
  IN  [empty |-> FALSE, timestamp |-> t, hour |-> hour,
       renewable_pct |-> Clip(RenewableProfile(hour) + u, 0, 1000),
       grid_stress |-> ComputeStressLevel(hour, u),
       price_per_kwh |-> PriceProfile(hour),
       carbon_intensity_gco2_kwh |-> CarbonProfile(hour),
       has_outdoor |-> FALSE, outdoor_temp_c |-> 0]

\* get_current_state() at grid time t
GetCurrentState(t, u) ==
  LET hour == HourOf(t)
  IN  [empty |-> FALSE, timestamp |-> t, hour |-> hour,
       renewable_pct |-> RenewableProfile(hour),
       grid_stress |-> ComputeStressLevel(hour, u),
       price_per_kwh |-> PriceProfile(hour),
       carbon_intensity_gco2_kwh |-> CarbonProfile(hour),
       has_outdoor |-> FALSE, outdoor_temp_c |-> 0]

\* GridSignalMonitor(config)
GridInit(start) == [current_time |-> start, current_state |-> EmptyGridState]

\* grid.update(dt)
GridUpdate(g, dt, u) ==
  [current_time |-> g.current_time + dt,
   current_state |-> GetCurrentState(g.current_time + dt, u)]

\* ============================================================ ITLoadModel
ITLoadInit ==
  [base_workload |-> InitBaseWorkload, flex_workload |-> InitFlexWorkload,
   current_power_kw |-> 0, current_heat_btu_hr |-> 0]

\* SetWorkload capping the utilizations at 1 without the floor at 0
SetWorkloadUpperOnly(it, base_util, flex_util) ==
  [it EXCEPT !.base_workload = Min(base_util, 1000),
             !.flex_workload = Min(flex_util, 1000)]

\* set_workload(base_util, flex_util)
SetWorkload(it, base_util, flex_util) ==
  [it EXCEPT !.base_workload = Clip(base_util, 0, 1000),
             !.flex_workload = Clip(flex_util, 0, 1000)]

\* compute_power()
ComputePower(it) ==
  LET total_capacity_kw == BaseCapacityKw + FlexCapacityKw
      base_weight == (BaseCapacityKw * 1000) \div total_capacity_kw
      flex_weight == (FlexCapacityKw * 1000) \div total_capacity_kw
      avg_utilization == (it.base_workload * base_weight
                          + it.flex_workload * flex_weight) \div 1000
      power_per_server_mw == ServerIdlePowerW * 1000
                             + (ServerMaxPowerW - ServerIdlePowerW) * avg_utilization
      total_power_w == (power_per_server_mw * NumServers) \div 1000
  IN  total_power_w \div 100

\* compute_heat(power_kw)
ComputeHeat(power_kw) == power_kw * BtuPerKwX100

\* it_load.update(dt)
ITLoadUpdate(it, dt) ==
  [it EXCEPT !.current_power_kw = ComputePower(it),
             !.current_heat_btu_hr = ComputeHeat(ComputePower(it))]

\* it_load.get_state()
ITLoadGetState(it) ==
  [base_workload |-> it.base_workload,
   flex_workload |-> it.flex_workload,
   total_utilization |-> (it.base_workload * BaseCapacityKw
                          + it.flex_workload * FlexCapacityKw)
                         \div (BaseCapacityKw + FlexCapacityKw),
   power_kw |-> it.current_power_kw,
   heat_btu_hr |-> it.current_heat_btu_hr]

\* =========================================================== CoolingModel
CoolingInit(threshold, target) ==
  [supply_temp_setpoint |-> DefaultSupplyTemp, outdoor_temp |-> DefaultOutdoorTemp,
   free_cooling_threshold |-> threshold, target_temp |-> target,
   current_temp |-> target, current_mode |-> MODE_HYBRID,
   current_cooling_power_kw |-> 0, current_pue |-> InitPue]

\* set_outdoor_temp(temp_c)
SetOutdoorTemp(c, temp_c) == [c EXCEPT !.outdoor_temp = temp_c]

\* set_supply_temp(temp_c)
SetSupplyTemp(c, temp_c) == [c EXCEPT !.supply_temp_setpoint = temp_c]

\* ComputeFreeCoolingRatio with the interpolation the wrong way round
ComputeFreeCoolingRatioReversed(c) ==
  IF c.outdoor_temp <= c.free_cooling_threshold THEN 1000
  ELSE IF c.outdoor_temp >= c.target_temp THEN 0
  ELSE ((c.outdoor_temp - c.free_cooling_threshold) * 1000)
        \div (c.target_temp - c.free_cooling_threshold)

\* compute_free_cooling_ratio()
ComputeFreeCoolingRatio(c) ==
  IF c.outdoor_temp <= c.free_cooling_threshold THEN 1000
  ELSE IF c.outdoor_temp >= c.target_temp THEN 0
  ELSE 1000 - ((c.outdoor_temp - c.free_cooling_threshold) * 1000)
               \div (c.target_temp - c.free_cooling_threshold)

\* DetermineCoolingMode with a strict comparison at 0.95
DetermineCoolingModeStrict(c) ==
  LET free_ratio == ComputeFreeCoolingRatio(c)
  IN  IF free_ratio > 950 THEN MODE_FREE
      ELSE IF free_ratio > 100 THEN MODE_HYBRID
      ELSE MODE_MECHANICAL

\* DetermineCoolingMode with hysteresis: free cooling, once selected, is kept
\* down to a ratio of 0.90
DetermineCoolingModeHysteresis(c) ==
  LET free_ratio == ComputeFreeCoolingRatio(c)
  IN  IF free_ratio >= 950 \/ (c.current_mode = MODE_FREE /\ free_ratio >= 900)
      THEN MODE_FREE
      ELSE IF free_ratio > 100 THEN MODE_HYBRID
      ELSE MODE_MECHANICAL

\* determine_cooling_mode()
DetermineCoolingMode(c) ==
  LET free_ratio == ComputeFreeCoolingRatio(c)
  IN  IF free_ratio >= 950 THEN MODE_FREE
      ELSE IF free_ratio > 100 THEN MODE_HYBRID
      ELSE MODE_MECHANICAL

\* ComputeCoolingPower charging fan_pump_overhead in free-cooling mode
ComputeCoolingPowerFanOverhead(c, heat_load_btu_hr, mode) ==
  LET heat_load_kw == heat_load_btu_hr \div BtuPerKwX100
      fan_pump_power_kw == (heat_load_kw * FanPumpOverhead) \div 1000
  IN  IF mode = MODE_FREE THEN fan_pump_power_kw
      ELSE IF mode = MODE_HYBRID
      THEN LET free_ratio == ComputeFreeCoolingRatio(c)
               mech_load_kw == (heat_load_kw * (1000 - free_ratio)) \div 1000
               mech_power_kw == (mech_load_kw * 10) \div ChillerCopX10
           IN  mech_power_kw + fan_pump_power_kw
      ELSE (heat_load_kw * 10) \div ChillerCopX10 + fan_pump_power_kw

\* compute_cooling_power(heat_load_btu_hr, mode)
ComputeCoolingPower(c, heat_load_btu_hr, mode) ==
  LET heat_load_kw == heat_load_btu_hr \div BtuPerKwX100
      fan_pump_power_kw == (heat_load_kw * FanPumpOverhead) \div 1000
  IN  IF mode = MODE_FREE THEN (heat_load_kw * 30) \div 1000
      ELSE IF mode = MODE_HYBRID
      THEN LET free_ratio == ComputeFreeCoolingRatio(c)
               mech_load_kw == (heat_load_kw * (1000 - free_ratio)) \div 1000
               mech_power_kw == (mech_load_kw * 10) \div ChillerCopX10
           IN  mech_power_kw + fan_pump_power_kw
      ELSE (heat_load_kw * 10) \div ChillerCopX10 + fan_pump_power_kw

\* compute_pue(it_power_kw, cooling_power_kw)
\* ComputePue leaving the IT power out of the total facility power
ComputePueOverheadOnly(it_power_kw, cooling_power_kw) ==
  IF it_power_kw <= 0 THEN 1000
  ELSE LET other_overhead_kw == (it_power_kw * 50) \div 1000
           total_power_kw == cooling_power_kw + other_overhead_kw
       IN  (total_power_kw * 1000) \div it_power_kw

ComputePue(it_power_kw, cooling_power_kw) ==
  IF it_power_kw <= 0 THEN 1000
  ELSE LET other_overhead_kw == (it_power_kw * 50) \div 1000
           total_power_kw == it_power_kw + cooling_power_kw + other_overhead_kw
       IN  (total_power_kw * 1000) \div it_power_kw

\* update_thermal_state(heat_load_btu_hr, dt)
UpdateThermalState(c, heat_load_btu_hr, dt) ==
  LET sgn == IF dt >= 0 THEN 1 ELSE -1
      heat_in_btu == sgn * MulDiv(heat_load_btu_hr \div 1000, Abs(dt), 3600)
      temp_rise == IF ThermalMass > 0 THEN (heat_in_btu * 100) \div ThermalMass ELSE 0
  IN  [c EXCEPT !.current_temp = c.target_temp + temp_rise \div 10]

\* cooling.update(dt, heat_load_btu_hr)
CoolingUpdate(c, dt, heat_load_btu_hr) ==
  LET mode == DetermineCoolingMode(c)
      c1 == [c EXCEPT !.current_mode = mode,
                      !.current_cooling_power_kw =
                          ComputeCoolingPower(c, heat_load_btu_hr, mode)]
  IN  UpdateThermalState(c1, heat_load_btu_hr, dt)

\* compute_current_pue(it_power_kw)
ComputeCurrentPue(c, it_power_kw) ==
  [c EXCEPT !.current_pue = ComputePue(it_power_kw, c.current_cooling_power_kw)]

\* cooling.get_state()
CoolingGetState(c) ==
  [mode |-> c.current_mode,
   cooling_power_kw |-> c.current_cooling_power_kw,
   pue |-> c.current_pue,
   current_temp_c |-> c.current_temp,
   outdoor_temp_c |-> c.outdoor_temp,
   supply_temp_c |-> c.supply_temp_setpoint,
   free_cooling_ratio |-> ComputeFreeCoolingRatio(c)]

\* ======================================================= SimpleController
\* the controller section of create_default_config()
DefaultControllerConfig ==
  [workload_adjustment_rate |-> DefaultAdjustmentRate,
   renewable_threshold_high |-> RenewableThresholdHigh,
   renewable_threshold_low |-> RenewableThresholdLow,
   stress_threshold_high |-> StressThresholdHigh]

ControllerInit(ctl_config) ==
  [adjustment_rate |-> ctl_config.workload_adjustment_rate,
   renewable_threshold_high |-> ctl_config.renewable_threshold_high,
   renewable_threshold_low |-> ctl_config.renewable_threshold_low,
   stress_threshold_high |-> ctl_config.stress_threshold_high,
   target_base_util |-> 700, target_flex_util |-> 300]

\* FlexTarget without the cap at 1.0
FlexTargetUncapped(ctl, current_flex, renewable_pct, stress_level) ==
  IF renewable_pct >= ctl.renewable_threshold_high /\ stress_level < StressThresholdIncrease
  THEN current_flex + ctl.adjustment_rate
  ELSE IF renewable_pct <= ctl.renewable_threshold_low \/ stress_level >= ctl.stress_threshold_high
       THEN Max(FlexFloor, current_flex - ctl.adjustment_rate)
       ELSE current_flex

\* FlexTarget decreasing only when renewables are low and stress is high
FlexTargetAndRule(ctl, current_flex, renewable_pct, stress_level) ==
  IF renewable_pct >= ctl.renewable_threshold_high /\ stress_level < StressThresholdIncrease
  THEN Min(FlexCap, current_flex + ctl.adjustment_rate)
  ELSE IF renewable_pct <= ctl.renewable_threshold_low /\ stress_level >= ctl.stress_threshold_high
       THEN Max(FlexFloor, current_flex - ctl.adjustment_rate)
       ELSE current_flex

\* FlexTarget testing the decrease condition before the increase condition
FlexTargetDecreaseFirst(ctl, current_flex, renewable_pct, stress_level) ==
  IF renewable_pct <= ctl.renewable_threshold_low
     \/ stress_level >= ctl.stress_threshold_high
  THEN Max(FlexFloor, current_flex - ctl.adjustment_rate)
  ELSE IF renewable_pct >= ctl.renewable_threshold_high
          /\ stress_level < StressThresholdIncrease
       THEN Min(FlexCap, current_flex + ctl.adjustment_rate)
       ELSE current_flex

\* the flex_target branch of compute_control
FlexTarget(ctl, current_flex, renewable_pct, stress_level) ==
  IF renewable_pct >= ctl.renewable_threshold_high /\ stress_level < StressThresholdIncrease
  THEN Min(FlexCap, current_flex + ctl.adjustment_rate)
  ELSE IF renewable_pct <= ctl.renewable_threshold_low \/ stress_level >= ctl.stress_threshold_high
       THEN Max(FlexFloor, current_flex - ctl.adjustment_rate)
       ELSE current_flex

\* the cooling-parameter branch of compute_control
CoolingParams(outdoor_temp) ==
  IF outdoor_temp < 1500 THEN [supply_temp |-> 2000, mode |-> MODE_FREE]
  ELSE IF outdoor_temp < 2500 THEN [supply_temp |-> 1800, mode |-> MODE_HYBRID]
  ELSE [supply_temp |-> 1600, mode |-> MODE_MECHANICAL]

\* ComputeControl letting the base target follow the grid like the flex target
ComputeControlBaseFollows(ctl, current_flex, grid_state) ==
  LET outdoor_temp == IF grid_state.has_outdoor THEN grid_state.outdoor_temp_c
                      ELSE 2000
      flex_target == FlexTarget(ctl, current_flex, grid_state.renewable_pct,
                                grid_state.grid_stress)
  IN  [called |-> TRUE,
       current_flex |-> current_flex,
       workload_base |-> BaseTarget + (flex_target - current_flex),
       workload_flex |-> flex_target,
       cooling_params |-> CoolingParams(outdoor_temp)]

\* compute_control(system_state, grid_state): the returned dict, with the
\* flex level it read from the snapshot
ComputeControl(ctl, current_flex, grid_state) ==
  LET outdoor_temp == IF grid_state.has_outdoor THEN grid_state.outdoor_temp_c
                      ELSE 2000
  IN  [called |-> TRUE,
       current_flex |-> current_flex,
       workload_base |-> BaseTarget,
       workload_flex |-> FlexTarget(ctl, current_flex, grid_state.renewable_pct,
                                    grid_state.grid_stress),
       cooling_params |-> CoolingParams(outdoor_temp)]

\* the targets compute_control stores in the controller
StoreTargets(ctl, control) ==
  [ctl EXCEPT !.target_base_util = control.workload_base,
              !.target_flex_util = control.workload_flex]

NoControl ==
  [called |-> FALSE, current_flex |-> 0, workload_base |-> 0, workload_flex |-> 0,
   cooling_params |-> [supply_temp |-> 0, mode |-> MODE_HYBRID]]

\* controller.get_state()
ControllerGetState(ctl) ==
  [target_base_util |-> ctl.target_base_util,
   target_flex_util |-> ctl.target_flex_util]

\* ==================================================== DataCenterOptimizer
VARIABLES
  config,        \* self.config: timestep_seconds, start_time (its value and
                 \* the type of config['start_time'], config['grid']['start_time'])
  timestep,      \* self.timestep
  current_time,  \* self.current_time
  it_load,       \* self.it_load
  cooling,       \* self.cooling
  grid,          \* self.grid
  controller,    \* self.controller
  history,       \* self.history: 14 parallel lists
  control,       \* the dict the last compute_control returned
  steps,         \* number of step() executions so far
  pc,            \* "idle", or "run" while run() is in its loop
  run,           \* locals of run(): i, num_steps, and steps at entry
  last_call,     \* the last finished call: operation and exception raised
  results        \* value returned by the last get_results()

vars == << config, timestep, current_time, it_load, cooling, grid, controller,
           history, control, steps, pc, run, last_call, results >>

HistoryKeys ==
  {"time", "it_power_kw", "cooling_power_kw", "total_power_kw", "pue",
   "base_workload", "flex_workload", "renewable_pct", "grid_stress",
   "price_per_kwh", "carbon_intensity", "cooling_mode", "total_cost",
   "total_carbon"}

\* self.history after __init__
EmptyHistory == [k \in HistoryKeys |-> << >>]

\* a datetime object held in a list
DateTime(t) == [repr |-> "datetime", secs |-> t]

\* t.isoformat(): the string of a datetime
IsoFormat(t) == [repr |-> "str", secs |-> t.secs]

\* RecordMetrics with the append to total_cost left out
RecordMetricsSkipCost(h, rec) ==
  [k \in HistoryKeys |-> IF k = "total_cost" THEN h[k] ELSE Append(h[k], rec[k])]

\* the fourteen append calls of step()
RecordMetrics(h, rec) == [k \in HistoryKeys |-> Append(h[k], rec[k])]

NoRun == [i |-> 0, duration |-> 0, num_steps |-> 0, entry_steps |-> 0]
\* the dict get_system_state() returns
SystemState(it, c, g, ctl, t) ==
  [it_load |-> ITLoadGetState(it),
   cooling |-> CoolingGetState(c),
   grid |-> g.current_state,
   controller |-> ControllerGetState(ctl),
   time |-> t]

NoSystemState ==
  SystemState(ITLoadInit,
              CoolingInit(DefaultFreeCoolingThreshold, DefaultTargetTemp),
              GridInit(0), ControllerInit(DefaultControllerConfig), 0)

\* the last call made on the object: its name, its arguments, the exception it
\* raised, the number or the system state it returned, and how many times in
\* a row the same call without arguments has been made
NoCall ==
  [op |-> "none", raised |-> "none", duration |-> 0, num_steps |-> 0, executed |-> 0,
   args |-> << >>, value |-> 0, system_state |-> NoSystemState, repeat |-> 0]

\* the count of the next call of op, and the cap on the calls in a row
Repeat(op) == IF last_call.op = op THEN last_call.repeat + 1 ELSE 1
MayRepeat(op) == Repeat(op) <= MaxRepeats
NoResults ==
  [returned |-> FALSE,
   summary |-> [total_energy_kwh |-> 0, total_cost_usd |-> 0, total_carbon_kg |-> 0,
                avg_pue |-> 0, min_pue |-> 0, max_pue |-> 0,
                avg_renewable_pct |-> 0, avg_flex_workload |-> 0],
   length |-> 0]

\* DataCenterOptimizer(config): nothing in __init__ validates the configuration
Construct(ts, start, ctl_config, threshold, target) ==
  /\ config = [timestep_seconds |-> ts, start_time |-> start,
               start_time_type |-> "datetime", grid_start_time_type |-> "datetime"]
  /\ timestep = ts
  /\ current_time = start
  /\ it_load = ITLoadInit
  /\ cooling = CoolingInit(threshold, target)
  /\ grid = GridInit(start)
  /\ controller = ControllerInit(ctl_config)
  /\ history = EmptyHistory
  /\ control = NoControl
  /\ steps = 0
  /\ pc = "idle"
  /\ run = NoRun
  /\ last_call = NoCall
  /\ results = NoResults

\* the outdoor temperature step() derives from the orchestrator's clock
OutdoorTempAt(t) ==
  LET hour == HourOf(t)
      base_temp == 1500
      daily_variation == (1000 * Sin12(hour - 6)) \div 1000
  IN  base_temp + daily_variation

\* energy_kwh = total_power * (timestep / 3600.0), kept exact in kW x 10 x s
StepEnergy(total_power, dt) == total_power * dt

\* energy_kwh * rate, for the price and for the carbon intensity
EnergyTimes(energy, rate) == MulDiv(energy, rate, 3600)

\* RecordedMode taking the mode the controller suggested
RecordedModeSuggested(c, ctrl) == ctrl.cooling_params.mode

\* the cooling mode step() appends to the history: the cooling model's, whatever
\* the controller's cooling_params say
RecordedMode(c, ctrl) == c.current_mode

\* body of step(); u is the random perturbation drawn by the grid monitor
StepBody(u) ==
  LET g1 == GridUpdate(grid, timestep, u)
      outdoor_temp == OutdoorTempAt(current_time)
      grid_state == [g1.current_state EXCEPT !.has_outdoor = TRUE,
                                             !.outdoor_temp_c = outdoor_temp]
      c1 == SetOutdoorTemp(cooling, outdoor_temp)
      ctrl == ComputeControl(controller, it_load.flex_workload, grid_state)
      it1 == SetWorkload(it_load, ctrl.workload_base, ctrl.workload_flex)
      c2 == SetSupplyTemp(c1, ctrl.cooling_params.supply_temp)
      it2 == ITLoadUpdate(it1, timestep)
      heat_load == it2.current_heat_btu_hr
      c3 == CoolingUpdate(c2, timestep, heat_load)
      cooling_power == c3.current_cooling_power_kw
      it_power == it2.current_power_kw
      c4 == ComputeCurrentPue(c3, it_power)
      pue == c4.current_pue
      total_power == it_power + cooling_power
      energy_kwh == StepEnergy(total_power, timestep)
      cost == EnergyTimes(energy_kwh, grid_state.price_per_kwh)
      carbon == EnergyTimes(energy_kwh, grid_state.carbon_intensity_gco2_kwh)
      rec == [time |-> DateTime(current_time),
              it_power_kw |-> it_power,
              cooling_power_kw |-> cooling_power,
              total_power_kw |-> total_power,
              pue |-> pue,
              base_workload |-> it2.base_workload,
              flex_workload |-> it2.flex_workload,
              renewable_pct |-> grid_state.renewable_pct,
              grid_stress |-> grid_state.grid_stress,
              price_per_kwh |-> grid_state.price_per_kwh,
              carbon_intensity |-> grid_state.carbon_intensity_gco2_kwh,
              cooling_mode |-> RecordedMode(c4, ctrl),
              total_cost |-> cost,
              total_carbon |-> carbon]
  IN  /\ grid' = [g1 EXCEPT !.current_state = grid_state]
      /\ controller' = StoreTargets(controller, ctrl)
      /\ control' = ctrl
      /\ it_load' = it2
      /\ cooling' = c4
      /\ history' = RecordMetrics(history, rec)
      /\ current_time' = current_time + timestep
      /\ steps' = steps + 1

\* step() called directly
Step ==
  /\ pc = "idle"
  /\ steps < MaxSteps
  /\ \E u \in Perturbations : StepBody(u)
  /\ last_call' = [NoCall EXCEPT !.op = "step"]
  /\ UNCHANGED << config, timestep, pc, run, results >>

\* np.mean of a non-empty list
Mean(s) == SumSeq(s) \div Len(s)

\* Summary totalling the IT power in place of the total power
SummaryItEnergy(h, dt) ==
  [total_energy_kwh |-> StepEnergy(SumSeq(h.it_power_kw), dt),
   total_cost_usd |-> SumSeq(h.total_cost),
   total_carbon_kg |-> SumSeq(h.total_carbon) \div 1000,
   avg_pue |-> Mean(h.pue),
   min_pue |-> MinSeq(h.pue),
   max_pue |-> MaxSeq(h.pue),
   avg_renewable_pct |-> Mean(h.renewable_pct),
   avg_flex_workload |-> Mean(h.flex_workload)]

\* the summary dict get_results() builds from a non-empty history
Summary(h, dt) ==
  [total_energy_kwh |-> StepEnergy(SumSeq(h.total_power_kw), dt),
   total_cost_usd |-> SumSeq(h.total_cost),
   total_carbon_kg |-> SumSeq(h.total_carbon) \div 1000,
   avg_pue |-> Mean(h.pue),
   min_pue |-> MinSeq(h.pue),
   max_pue |-> MaxSeq(h.pue),
   avg_renewable_pct |-> Mean(h.renewable_pct),
   avg_flex_workload |-> Mean(h.flex_workload)]

\* get_results(): np.min / np.max of an empty list raise ValueError; otherwise
\* the result holds the summary and self.history itself
GetResultsRaises(h) == Len(h.pue) = 0

GetResultsBody(call) ==
  IF GetResultsRaises(history)
  THEN /\ last_call' = [call EXCEPT !.raised = "ValueError"]
       /\ UNCHANGED results
  ELSE /\ last_call' = [call EXCEPT !.raised = "none"]
       /\ results' = [returned |-> TRUE, summary |-> Summary(history, timestep),
                      length |-> Len(history.pue)]

\* get_results() called directly
GetResults ==
  /\ pc = "idle"
  /\ MayRepeat("get_results")
  /\ GetResultsBody([NoCall EXCEPT !.op = "get_results",
                                    !.repeat = Repeat("get_results")])
  /\ UNCHANGED << config, timestep, current_time, it_load, cooling, grid,
                  controller, history, control, steps, pc, run >>

\* GetSystemState re-reading the grid with get_current_state(), which draws a
\* new perturbation and replaces grid.current_state
GetSystemStateRefreshGrid ==
  /\ pc = "idle"
  /\ MayRepeat("get_system_state")
  /\ \E u \in Perturbations :
       grid' = [grid EXCEPT !.current_state = GetCurrentState(grid.current_time, u)]
  /\ last_call' = [NoCall EXCEPT
                     !.op = "get_system_state",
                     !.repeat = Repeat("get_system_state"),
                     !.system_state = SystemState(it_load, cooling, grid',
                                                  controller, current_time)]
  /\ UNCHANGED << config, timestep, current_time, it_load, cooling,
                  controller, history, control, steps, pc, run, results >>

\* get_system_state() called directly
GetSystemState ==
  /\ pc = "idle"
  /\ MayRepeat("get_system_state")
  /\ last_call' = [NoCall EXCEPT
                     !.op = "get_system_state",
                     !.repeat = Repeat("get_system_state"),
                     !.system_state = SystemState(it_load, cooling, grid,
                                                  controller, current_time)]
  /\ UNCHANGED << config, timestep, current_time, it_load, cooling, grid,
                  controller, history, control, steps, pc, run, results >>

\* save_results(): get_results() returns self.history and self.config
\* themselves, so the conversions to strings are made in the orchestrator's
\* own history['time'] and config; a str in history['time'] has no isoformat
SaveResultsRaises(h) ==
  IF GetResultsRaises(h) THEN "ValueError"
  ELSE IF \E i \in 1..Len(h.time) : h.time[i].repr = "str" THEN "AttributeError"
  ELSE "none"

SaveResults ==
  /\ pc = "idle"
  /\ MayRepeat("save_results")
  /\ last_call' = [NoCall EXCEPT !.op = "save_results",
                                 !.repeat = Repeat("save_results"),
                                 !.raised = SaveResultsRaises(history)]
  /\ IF SaveResultsRaises(history) = "none"
     THEN /\ history' = [history EXCEPT
                           !.time = [i \in 1..Len(history.time) |->
                                       IsoFormat(history.time[i])]]
          /\ config' = [config EXCEPT !.start_time_type = "str",
                                      !.grid_start_time_type = "str"]
     ELSE UNCHANGED << history, config >>
  /\ UNCHANGED << timestep, current_time, it_load, cooling, grid, controller,
                  control, steps, pc, run, results >>

\* num_steps = int((duration_hours * 3600) / self.timestep)
NumSteps(duration, dt) == TruncDiv(duration, dt)

\* run(duration_hours) up to the loop; duration is duration_hours * 3600
RunBegin(duration) ==
  /\ pc = "idle"
  /\ IF timestep = 0
     THEN /\ last_call' = [NoCall EXCEPT !.op = "run", !.duration = duration,
                                         !.raised = "ZeroDivisionError"]
          /\ UNCHANGED << pc, run >>
     ELSE /\ steps + Max(NumSteps(duration, timestep), 0) <= MaxSteps
          /\ pc' = "run"
          /\ run' = [i |-> 0, duration |-> duration,
                     num_steps |-> NumSteps(duration, timestep),
                     entry_steps |-> steps]
          /\ UNCHANGED last_call
  /\ UNCHANGED << config, timestep, current_time, it_load, cooling, grid,
                  controller, history, control, steps, results >>

\* the divisor of the progress test  i % (3600 // self.timestep)
ProgressDivisor(dt) == FloorDiv(3600, dt)

\* one iteration of the loop of run(): step(), then the progress test
RunIter ==
  /\ pc = "run"
  /\ run.i < run.num_steps
  /\ \E u \in Perturbations : StepBody(u)
  /\ IF ProgressDivisor(timestep) = 0
     THEN /\ pc' = "idle"
          /\ run' = NoRun
          /\ last_call' = [NoCall EXCEPT !.op = "run",
                                         !.raised = "ZeroDivisionError",
                                         !.duration = run.duration,
                                         !.num_steps = run.num_steps,
                                         !.executed = steps + 1 - run.entry_steps]
     ELSE /\ run' = [run EXCEPT !.i = run.i + 1]
          /\ UNCHANGED << pc, last_call >>
  /\ UNCHANGED << config, timestep, results >>

\* the end of run(): return self.get_results()
RunFinish ==
  /\ pc = "run"
  /\ run.i >= run.num_steps
  /\ GetResultsBody([NoCall EXCEPT !.op = "run",
                                    !.duration = run.duration,
                                    !.num_steps = run.num_steps,
                                    !.executed = steps - run.entry_steps])
  /\ pc' = "idle"
  /\ run' = NoRun
  /\ UNCHANGED << config, timestep, current_time, it_load, cooling, grid,
                  controller, history, control, steps >>

Init ==
  \E ts \in Timesteps, start \in StartTimes :
    Construct(ts, start, DefaultControllerConfig,
              DefaultFreeCoolingThreshold, DefaultTargetTemp)

Next ==
  \/ Step
  \/ GetResults
  \/ \E d \in Durations : RunBegin(d)
  \/ RunIter
  \/ RunFinish

Spec == Init /\ [][Next]_vars

\* --------------------------------------------- the controller on its own
\* lines 91-101 of step() with the grid state supplied by the caller
CallComputeControl(renewable_pct, grid_stress, outdoor_temp) ==
  LET grid_state == [GetCurrentState(grid.current_time, 0) EXCEPT
                        !.renewable_pct = renewable_pct,
                        !.grid_stress = grid_stress,
                        !.has_outdoor = TRUE,
                        !.outdoor_temp_c = outdoor_temp]
      ctrl == ComputeControl(controller, it_load.flex_workload, grid_state)
  IN  /\ pc = "idle"
      /\ grid' = [grid EXCEPT !.current_state = grid_state]
      /\ controller' = StoreTargets(controller, ctrl)
      /\ control' = ctrl
      /\ it_load' = SetWorkload(it_load, ctrl.workload_base, ctrl.workload_flex)
      /\ last_call' = [NoCall EXCEPT !.op = "compute_control"]
      /\ UNCHANGED << config, timestep, current_time, cooling, history, steps,
                      pc, run, results >>

InitCtl ==
  \E rate \in AdjustmentRates, stress_high \in StressThresholds :
    Construct(DefaultTimestep, 0,
              [DefaultControllerConfig EXCEPT
                 !.workload_adjustment_rate = rate,
                 !.stress_threshold_high = stress_high],
              DefaultFreeCoolingThreshold, DefaultTargetTemp)

NextCtl ==
  \E r \in RenewableSignals, s \in StressSignals, t \in {1000, 2500} :
    CallComputeControl(r, s, t)

SpecCtl == InitCtl /\ [][NextCtl]_vars

\* ------------------------------------------- the cooling model on its own
CallSetOutdoorTemp(temp_c) ==
  /\ pc = "idle"
  /\ cooling' = SetOutdoorTemp(cooling, temp_c)
  /\ last_call' = [NoCall EXCEPT !.op = "set_outdoor_temp"]
  /\ UNCHANGED << config, timestep, current_time, it_load, grid, controller,
                  history, control, steps, pc, run, results >>

CallSetSupplyTemp(temp_c) ==
  /\ pc = "idle"
  /\ cooling' = SetSupplyTemp(cooling, temp_c)
  /\ last_call' = [NoCall EXCEPT !.op = "set_supply_temp"]
  /\ UNCHANGED << config, timestep, current_time, it_load, grid, controller,
                  history, control, steps, pc, run, results >>

CallCoolingUpdate(heat_load_btu_hr) ==
  /\ pc = "idle"
  /\ cooling' = CoolingUpdate(cooling, timestep, heat_load_btu_hr)
  /\ last_call' = [NoCall EXCEPT !.op = "cooling.update"]
  /\ UNCHANGED << config, timestep, current_time, it_load, grid, controller,
                  history, control, steps, pc, run, results >>

InitCool ==
  \E threshold \in FreeCoolingThresholds, target \in TargetTemps :
    Construct(DefaultTimestep, 0, DefaultControllerConfig, threshold, target)

NextCool ==
  \/ \E t \in OutdoorTemps : CallSetOutdoorTemp(t)
  \/ \E t \in {1600, 2000} : CallSetSupplyTemp(t)
  \/ \E q \in HeatLoads : CallCoolingUpdate(q)

SpecCool == InitCool /\ [][NextCool]_vars

\* ------------------------------------------- the IT load model on its own
CallSetWorkload(base_util, flex_util) ==
  /\ pc = "idle"
  /\ it_load' = SetWorkload(it_load, base_util, flex_util)
  /\ last_call' = [NoCall EXCEPT !.op = "set_workload",
                                 !.args = << base_util, flex_util >>]
  /\ UNCHANGED << config, timestep, current_time, cooling, grid, controller,
                  history, control, steps, pc, run, results >>

CallITLoadUpdate ==
  /\ pc = "idle"
  /\ it_load' = ITLoadUpdate(it_load, timestep)
  /\ last_call' = [NoCall EXCEPT !.op = "it_load.update"]
  /\ UNCHANGED << config, timestep, current_time, cooling, grid, controller,
                  history, control, steps, pc, run, results >>

InitITLoad ==
  Construct(DefaultTimestep, 0, DefaultControllerConfig,
            DefaultFreeCoolingThreshold, DefaultTargetTemp)

NextITLoad ==
  \/ \E b \in Utilizations, f \in Utilizations : CallSetWorkload(b, f)
  \/ CallITLoadUpdate

SpecITLoad == InitITLoad /\ [][NextITLoad]_vars

\* ------------------------ the orchestrator with compute_pue called directly
\* cooling.compute_pue(it_power_kw, cooling_power_kw) called by a client: the
\* method reads and writes no attribute
CallComputePue(it_power_kw, cooling_power_kw) ==
  /\ pc = "idle"
  /\ last_call' = [NoCall EXCEPT !.op = "compute_pue",
                                 !.args = << it_power_kw, cooling_power_kw >>,
                                 !.value = ComputePue(it_power_kw, cooling_power_kw)]
  /\ UNCHANGED << config, timestep, current_time, it_load, cooling, grid,
                  controller, history, control, steps, pc, run, results >>

InitPueCalls ==
  \E ts \in {DefaultTimestep, 3600}, start \in StartTimes :
    Construct(ts, start, DefaultControllerConfig,
              DefaultFreeCoolingThreshold, DefaultTargetTemp)

NextPueCalls ==
  \/ Step
  \/ \E p \in ItPowers, c \in CoolingPowers : CallComputePue(p, c)

SpecPueCalls == InitPueCalls /\ [][NextPueCalls]_vars

\* ------------- the orchestrator with its reporting operations and no run()
InitObserved ==
  \E ts \in {DefaultTimestep, 3600}, start \in {0, 21600} :
    Construct(ts, start, DefaultControllerConfig,
              DefaultFreeCoolingThreshold, DefaultTargetTemp)

NextObserved ==
  \/ Step
  \/ GetResults
  \/ GetSystemState
  \/ SaveResults

SpecObserved == InitObserved /\ [][NextObserved]_vars

\* ================================================================ claims

\* the end-to-end scenario: default configuration, timestep 300 s, exactly
\* one step executed, starting at hour 0
Scenario ==
  /\ config.timestep_seconds = DefaultTimestep
  /\ config.start_time = 0
  /\ steps = 1

\* C1: every one of the 14 history sequences has length equal to the number
\* of steps executed so far; each step() appends exactly one entry to each
\* sequence and leaves the entries appended before unchanged; nothing else
\* touches the history.
C1_HistoryAppendOnly ==
  /\ [](\A k \in HistoryKeys : Len(history[k]) = steps)
  /\ [][\A k \in HistoryKeys :
          IF steps' = steps + 1
          THEN /\ Len(history'[k]) = Len(history[k]) + 1
               /\ SubSeq(history'[k], 1, Len(history[k])) = history[k]
          ELSE history'[k] = history[k]]_vars

C1_Witness ==
  /\ timestep > 0
  /\ last_call.op = "run"
  /\ last_call.raised = "none"
  /\ last_call.executed = 2
  /\ \A k \in HistoryKeys : Len(history[k]) = 3

\* C2: the flex utilization compute_control produces lies in [0.1, 1.0] and
\* differs from the flex utilization it read from the snapshot by at most the
\* configured adjustment rate, whatever grid signals it is given.
C2_FlexBounded ==
  control.called =>
    /\ FlexFloor <= control.workload_flex
    /\ control.workload_flex <= FlexCap
    /\ Abs(control.workload_flex - control.current_flex) <= controller.adjustment_rate

C2_Witness ==
  /\ control.called
  /\ controller.adjustment_rate = 200
  /\ control.current_flex = 900
  /\ control.workload_flex = 1000

\* C3: for a positive step duration and a non-negative duration, run()
\* executes exactly N = floor(duration * 3600 / stepSeconds) steps, all of them
\* or none, and when N > 0 it then returns the results (the return of a
\* zero-step run is claim C4).
C3_RunExecutesAllSteps ==
  (last_call.op = "run" /\ timestep > 0) =>
    /\ last_call.executed = last_call.duration \div timestep
    /\ last_call.executed > 0 => last_call.raised = "none"

\* C4: when no step has been executed (run(0), or get_results() before any
\* step), the orchestrator returns an empty but valid result and does not fail.
C4_EmptyResultValid ==
  (last_call.op \in {"run", "get_results"} /\ Len(history.pue) = 0 /\ timestep > 0) =>
    /\ last_call.raised = "none"
    /\ results.returned
    /\ results.length = 0

\* C5: no orchestrator with timestep <= 0 reaches a state in which step() or
\* run() has been executed.
C5_NonPositiveTimestepRejected ==
  timestep <= 0 => (steps = 0 /\ pc = "idle" /\ last_call.op \notin {"step", "run"})

\* C6: in the end-to-end scenario the outdoor temperature is 5.0, the
\* free-cooling ratio is 1.0, the cooling mode recorded for the step is free,
\* and the recorded cooling power is strictly less than 5% of the recorded IT
\* power.
C6_ScenarioFreeCooling ==
  Scenario =>
    /\ cooling.outdoor_temp = 500
    /\ grid.current_state.outdoor_temp_c = 500
    /\ ComputeFreeCoolingRatio(cooling) = 1000
    /\ history.cooling_mode[1] = MODE_FREE
    /\ history.cooling_power_kw[1] * 100 < 5 * history.it_power_kw[1]

C6_Witness ==
  /\ Scenario
  /\ history.cooling_mode = << MODE_FREE >>
  /\ history.it_power_kw[1] > 0
  /\ history.cooling_power_kw[1] > 0

C8_BaseFixed ==
  /\ it_load.base_workload = 700
  /\ controller.target_base_util = 700
  /\ \A i \in 1..Len(history.base_workload) : history.base_workload[i] = 700

C8_Witness ==
  /\ steps >= 2
  /\ history.base_workload[2] = 700
  /\ history.flex_workload[1] # history.flex_workload[2]
  /\ history.renewable_pct[1] # history.renewable_pct[2]

\* the free-cooling ratio the cooling model computes at outdoor temperature t
RatioAt(t) == ComputeFreeCoolingRatio(SetOutdoorTemp(cooling, t))

\* the ratio never increases as the outdoor temperature rises to the current one
RatioMonotone ==
  \A t \in OutdoorTemps :
    t <= cooling.outdoor_temp => RatioAt(t) >= ComputeFreeCoolingRatio(cooling)

\* C9 as claimed: for every pair of thresholds the ratio is 1.0 whenever
\* outdoor <= free-cooling threshold, 0.0 whenever outdoor >= target
\* temperature, and non-increasing in the outdoor temperature.
C9_RatioEndpoints ==
  /\ cooling.outdoor_temp <= cooling.free_cooling_threshold
       => ComputeFreeCoolingRatio(cooling) = 1000
  /\ cooling.outdoor_temp >= cooling.target_temp
       => ComputeFreeCoolingRatio(cooling) = 0
  /\ RatioMonotone

\* C9 as amended: the ratio is 1.0 whenever outdoor <= free-cooling threshold,
\* 0.0 whenever outdoor >= target temperature and outdoor > free-cooling
\* threshold (the threshold test is applied first), and non-increasing in the
\* outdoor temperature.
C9_RatioEndpointsThresholdFirst ==
  /\ cooling.outdoor_temp <= cooling.free_cooling_threshold
       => ComputeFreeCoolingRatio(cooling) = 1000
  /\ (cooling.outdoor_temp >= cooling.target_temp
      /\ cooling.outdoor_temp > cooling.free_cooling_threshold)
       => ComputeFreeCoolingRatio(cooling) = 0
  /\ RatioMonotone

C9_Witness ==
  /\ last_call.op = "set_outdoor_temp"
  /\ cooling.free_cooling_threshold < cooling.outdoor_temp
  /\ cooling.outdoor_temp < cooling.target_temp
  /\ ComputeFreeCoolingRatio(cooling) > 0
  /\ ComputeFreeCoolingRatio(cooling) < 1000

\* C10: the mode cooling.update selects is free if and only if the
\* free-cooling ratio is >= 0.95, mechanical if and only if the ratio is
\* <= 0.10, and hybrid otherwise.
C10_ModeByRatio ==
  last_call.op = "cooling.update" =>
    LET r == ComputeFreeCoolingRatio(cooling)
    IN  /\ cooling.current_mode = MODE_FREE <=> r >= 950
        /\ cooling.current_mode = MODE_MECHANICAL <=> r <= 100
        /\ cooling.current_mode = MODE_HYBRID <=> (100 < r /\ r < 950)
        /\ cooling.current_mode = DetermineCoolingMode(cooling)

C10_Witness ==
  /\ last_call.op = "cooling.update"
  /\ ComputeFreeCoolingRatio(cooling) = 950
  /\ cooling.current_mode = MODE_FREE

\* C11: compute_pue returns exactly 1.0 for every IT power <= 0, and at least
\* 1.0 for every IT power > 0 with a cooling power >= 0; every PUE recorded
\* in the history is at least 1.0
C11_PueAtLeastOne ==
  /\ last_call.op = "compute_pue" =>
       LET it_power_kw == last_call.args[1]
           cooling_power_kw == last_call.args[2]
       IN  /\ it_power_kw <= 0 => last_call.value = 1000
           /\ (it_power_kw > 0 /\ cooling_power_kw >= 0) => last_call.value >= 1000
  /\ \A i \in 1..Len(history.pue) : history.pue[i] >= 1000

\* compute_pue called with no IT power and some cooling power, after steps
\* that recorded a PUE above 1.0
C11_Witness ==
  /\ last_call.op = "compute_pue"
  /\ last_call.args[1] = 0
  /\ last_call.args[2] > 0
  /\ last_call.value = 1000
  /\ Len(history.pue) = 2
  /\ history.pue[2] > 1000

\* C12: after set_workload(b, f), for every b and f including values out of
\* range, the stored base and flex utilizations each lie in [0, 1] and are
\* the inputs clamped independently; the call raises nothing
C12_WorkloadClamped ==
  last_call.op = "set_workload" =>
    LET b == last_call.args[1]
        f == last_call.args[2]
    IN  /\ last_call.raised = "none"
        /\ it_load.base_workload >= 0 /\ it_load.base_workload <= 1000
        /\ it_load.flex_workload >= 0 /\ it_load.flex_workload <= 1000
        /\ b < 0 => it_load.base_workload = 0
        /\ b > 1000 => it_load.base_workload = 1000
        /\ (b >= 0 /\ b <= 1000) => it_load.base_workload = b
        /\ f < 0 => it_load.flex_workload = 0
        /\ f > 1000 => it_load.flex_workload = 1000
        /\ (f >= 0 /\ f <= 1000) => it_load.flex_workload = f

\* set_workload(1.5, -0.2) stored (1.0, 0.0)
C12_Witness ==
  /\ last_call.op = "set_workload"
  /\ last_call.args = << 1500, -200 >>
  /\ it_load.base_workload = 1000
  /\ it_load.flex_workload = 0

\* the energies of the steps of a history, each total power times the step
\* duration, added up record by record
RECURSIVE SumStepEnergies(_, _)
SumStepEnergies(powers, dt) ==
  IF powers = << >> THEN 0
  ELSE Head(powers) * dt + SumStepEnergies(Tail(powers), dt)

\* C13: after at least one step, the total_energy_kwh of the summary that
\* get_results() returns is the sum over the history records of
\* total_power_kw * (timestep_seconds / 3600)
C13_TotalEnergyIsSum ==
  (/\ pc = "idle"
   /\ last_call.op \in {"get_results", "run"}
   /\ last_call.raised = "none"
   /\ steps >= 1) =>
    /\ results.returned
    /\ results.length = steps
    /\ results.summary.total_energy_kwh
         = SumStepEnergies(history.total_power_kw, config.timestep_seconds)

\* get_results() returned after three steps of 300 s with a positive total
C13_Witness ==
  /\ last_call.op = "get_results"
  /\ last_call.raised = "none"
  /\ config.timestep_seconds = DefaultTimestep
  /\ steps = 3
  /\ results.length = 3
  /\ results.summary.total_energy_kwh > 0
  /\ history.total_power_kw[1] # history.total_power_kw[3]

\* the state of every component: clocks, utilizations, cooling state,
\* controller targets, history
ComponentState ==
  << config, timestep, current_time, it_load, cooling, grid, controller,
     history, steps >>

\* C14: get_system_state() and get_results() leave the state of every
\* component unchanged, and a call repeated with no step in between returns
\* what the call before it returned
C14_GettersIdempotent ==
  [][(pc = "idle" /\ last_call'.op \in {"get_system_state", "get_results"}) =>
       /\ UNCHANGED ComponentState
       /\ last_call.op = last_call'.op =>
            /\ last_call'.system_state = last_call.system_state
            /\ last_call'.raised = last_call.raised
            /\ results' = results]_vars

\* get_results() called after two steps, then get_system_state() called twice
\* in a row
C14_Witness ==
  /\ steps = 2
  /\ results.returned
  /\ results.length = 2
  /\ last_call.op = "get_system_state"
  /\ last_call.repeat = 2
  /\ last_call.system_state.time = current_time
  /\ ~last_call.system_state.grid.empty
ModeOf(outdoor, threshold, target) ==
  LET ratio == IF outdoor <= threshold THEN 1000
               ELSE IF outdoor >= target THEN 0
               ELSE 1000 - ((outdoor - threshold) * 1000) \div (target - threshold)
  IN  IF ratio >= 950 THEN "free_cooling"
      ELSE IF ratio <= 100 THEN "mechanical"
      ELSE "hybrid"

\* C16: the mode every cooling.update selects is a function of the outdoor
\* temperature and the two configured thresholds alone, whatever the previous
\* mode and the supply-temperature setpoint; set_supply_temp leaves the mode
\* unchanged
C16_ModeByOutdoorTempOnly ==
  /\ [](last_call.op = "cooling.update" =>
          cooling.current_mode = ModeOf(cooling.outdoor_temp,
                                        cooling.free_cooling_threshold,
                                        cooling.target_temp))
  /\ [][last_call'.op = "set_supply_temp" =>
          cooling'.current_mode = cooling.current_mode]_vars

\* an update that selected free cooling at 15.35 C, away from the initial
\* hybrid mode, under the setpoint 16 C that the controller pairs with
\* mechanical cooling
C16_Witness ==
  /\ last_call.op = "cooling.update"
  /\ cooling.free_cooling_threshold = DefaultFreeCoolingThreshold
  /\ cooling.target_temp = DefaultTargetTemp
  /\ cooling.outdoor_temp = 1535
  /\ cooling.supply_temp_setpoint = 1600
  /\ cooling.current_mode = MODE_FREE

\* C17: the mode in the controller's cooling_params and the mode the cooling
\* model selects can differ in a step of a default-configuration run, and
\* the history record of a step holds the cooling model's mode, not the
\* controller's
C17_HistoryHoldsCoolingModelMode ==
  steps >= 1 =>
    /\ history.cooling_mode[steps] = cooling.current_mode
    /\ control.cooling_params.mode # cooling.current_mode =>
         history.cooling_mode[steps] # control.cooling_params.mode

\* the step at 06:00 of a default configuration: outdoor 15.0 C, the
\* controller suggests hybrid, the cooling model selects and the history
\* records free cooling
C17_Witness ==
  /\ config.timestep_seconds = DefaultTimestep
  /\ steps >= 1
  /\ HourOf(history.time[steps].secs) = 6
  /\ control.cooling_params.mode = MODE_HYBRID
  /\ cooling.current_mode = MODE_FREE
  /\ history.cooling_mode[steps] = MODE_FREE

\* C18: in every step the outdoor temperature injected into the grid state
\* is derived from the same hour of day as the grid state's own hour field,
\* and that hour is the hour of day of the timestamp in the step's history
\* record (the orchestrator and the grid share their start time)
C18_OutdoorTempHourIsGridHour ==
  (timestep > 0 /\ steps >= 1) =>
    LET recorded == history.time[steps].secs
    IN  /\ grid.current_state.has_outdoor
        /\ grid.current_state.outdoor_temp_c = OutdoorTempAt(recorded)
        /\ grid.current_state.hour = HourOf(recorded)

\* C19: save_results() leaves the in-memory history, its timestamp sequence
\* included, and the configuration as they were before the call
C19_SaveResultsKeepsState ==
  [][last_call'.op = "save_results" =>
       (history' = history /\ config' = config)]_vars

\* C20: two runs with the same configuration, start time and step count
\* that differ only in the random perturbations have the same history of
\* timestamp, renewable fraction, price, carbon intensity, base workload and
\* cooling mode: each of these, at each step, is a function of the
\* configuration and the step number alone
C20_PerturbationFreeFields ==
  \A i \in 1..steps :
    LET recorded == config.start_time + (i - 1) * config.timestep_seconds
        grid_hour == HourOf(config.start_time + i * config.timestep_seconds)
    IN  /\ history.time[i].secs = recorded
        /\ history.renewable_pct[i] = RenewableProfile(grid_hour)
        /\ history.price_per_kwh[i] = PriceProfile(grid_hour)
        /\ history.carbon_intensity[i] = CarbonProfile(grid_hour)
        /\ history.base_workload[i] = BaseTarget
        /\ history.cooling_mode[i]
             = ModeOf(OutdoorTempAt(recorded), DefaultFreeCoolingThreshold,
                      DefaultTargetTemp)

\* three steps within one hour whose grid stress differs from step to step,
\* so different perturbations were drawn, with equal renewable fractions
C20_Witness ==
  /\ steps = 3
  /\ config.timestep_seconds = DefaultTimestep
  /\ history.grid_stress[1] # history.grid_stress[2]
  /\ history.grid_stress[2] # history.grid_stress[3]
  /\ history.renewable_pct[1] = history.renewable_pct[3]

\* C21: in every history record with IT power > 0 the recorded PUE is the
\* ratio of the record's total power to its IT power,
\* pue * it_power_kw = total_power_kw, up to the rounding of the PUE to
\* three decimals
C21_PueIsTotalOverIt ==
  timestep > 0 =>
    \A i \in 1..Len(history.pue) :
      history.it_power_kw[i] > 0 =>
        Abs(history.pue[i] * history.it_power_kw[i]
            - history.total_power_kw[i] * 1000) < history.it_power_kw[i]

====
